---- MODULE Spec2Model ----
(***************************************************************************)
(* Shape sorter task generator (src/src/generator.py).                     *)
(*                                                                         *)
(* Python floats are IEEE-754 binary64 values.  They are modelled exactly: *)
(* a float is a sign, a 53-bit significand and a binary exponent, and every*)
(* arithmetic operation computes the exact result and rounds it to the     *)
(* nearest representable value, ties to even.  Significands do not fit the *)
(* model checker's integers, so they are kept as little-endian sequences of*)
(* 15-bit limbs.  Overflow, subnormals, infinities and NaN are not         *)
(* modelled: every value here is a canvas coordinate or a frame count.     *)
(***************************************************************************)
EXTENDS Integers, Sequences, FiniteSets, TLC

(***************************************************************************)
(* Natural numbers of arbitrary size: little-endian limbs, no leading zero *)
(* limb, zero is the empty sequence.                                       *)
(***************************************************************************)
LimbBits == 15
Radix == 2 ^ LimbBits

Max2(a, b) == IF a >= b THEN a ELSE b
Min2(a, b) == IF a <= b THEN a ELSE b

RECURSIVE BNorm(_)
BNorm(a) ==
    IF a = <<>> THEN a
    ELSE IF a[Len(a)] = 0 THEN BNorm(SubSeq(a, 1, Len(a) - 1)) ELSE a

BHead(a) == IF a = <<>> THEN 0 ELSE Head(a)
BTail(a) == IF a = <<>> THEN <<>> ELSE Tail(a)

RECURSIVE BFromInt(_)
BFromInt(n) == IF n = 0 THEN <<>> ELSE <<n % Radix>> \o BFromInt(n \div Radix)

RECURSIVE BToInt(_)
BToInt(a) == IF a = <<>> THEN 0 ELSE Head(a) + Radix * BToInt(Tail(a))

RECURSIVE BAddC(_, _, _)
BAddC(a, b, c) ==
    IF a = <<>> /\ b = <<>> THEN (IF c = 0 THEN <<>> ELSE <<c>>)
    ELSE LET s == BHead(a) + BHead(b) + c
         IN  <<s % Radix>> \o BAddC(BTail(a), BTail(b), s \div Radix)

BAdd(a, b) == BAddC(a, b, 0)

\* a - b - c for a >= b + c; c is the borrow
RECURSIVE BSubC(_, _, _)
BSubC(a, b, c) ==
    IF a = <<>> THEN <<>>
    ELSE LET d == Head(a) - BHead(b) - c
         IN  IF d < 0 THEN <<d + Radix>> \o BSubC(Tail(a), BTail(b), 1)
                      ELSE <<d>> \o BSubC(Tail(a), BTail(b), 0)

BSub(a, b) == BNorm(BSubC(a, b, 0))

\* -1, 0, 1 as a < b, a = b, a > b
RECURSIVE BCmpAt(_, _, _)
BCmpAt(a, b, i) ==
    IF i = 0 THEN 0
    ELSE IF a[i] < b[i] THEN -1
    ELSE IF a[i] > b[i] THEN 1
    ELSE BCmpAt(a, b, i - 1)

BCmp(a, b) ==
    IF Len(a) < Len(b) THEN -1
    ELSE IF Len(a) > Len(b) THEN 1
    ELSE BCmpAt(a, b, Len(a))

RECURSIVE BMulSmallC(_, _, _)
BMulSmallC(a, k, c) ==
    IF a = <<>> THEN (IF c = 0 THEN <<>> ELSE <<c>>)
    ELSE LET p == Head(a) * k + c
         IN  <<p % Radix>> \o BMulSmallC(Tail(a), k, p \div Radix)

\* a * k for 0 <= k <= Radix
BMulSmall(a, k) == BNorm(BMulSmallC(a, k, 0))

BShlLimbs(a, n) == IF a = <<>> THEN a ELSE [i \in 1..n |-> 0] \o a

RECURSIVE BMul(_, _)
BMul(a, b) ==
    IF b = <<>> \/ a = <<>> THEN <<>>
    ELSE BAdd(BMulSmall(a, Head(b)), BShlLimbs(BMul(a, Tail(b)), 1))

\* quotient and remainder of a by k, 0 < k <= Radix
RECURSIVE BDivModSmall(_, _)
BDivModSmall(a, k) ==
    IF a = <<>> THEN [q |-> <<>>, r |-> 0]
    ELSE LET hi  == BDivModSmall(Tail(a), k)
             cur == hi.r * Radix + Head(a)
         IN  [q |-> <<cur \div k>> \o hi.q, r |-> cur % k]

BShl(a, n) == BShlLimbs(BMulSmall(a, 2 ^ (n % LimbBits)), n \div LimbBits)

BDropLimbs(a, n) == IF n >= Len(a) THEN <<>> ELSE SubSeq(a, n + 1, Len(a))

\* floor(a / 2^n)
BShr(a, n) ==
    BNorm(BDivModSmall(BDropLimbs(a, n \div LimbBits), 2 ^ (n % LimbBits)).q)

RECURSIVE IntBitLen(_)
IntBitLen(n) == IF n = 0 THEN 0 ELSE 1 + IntBitLen(n \div 2)

BBitLen(a) ==
    IF a = <<>> THEN 0 ELSE (Len(a) - 1) * LimbBits + IntBitLen(a[Len(a)])

BIsOdd(a) == BHead(a) % 2 = 1

\* floor(n * 2^k / d) together with whether the division left a remainder:
\* k steps of binary long division, r < d on entry
RECURSIVE BLongDiv(_, _, _, _)
BLongDiv(q, r, d, k) ==
    IF k = 0 THEN [q |-> q, r |-> IF r = <<>> THEN 0 ELSE 1]
    ELSE LET r2 == BMulSmall(r, 2)
             q2 == BMulSmall(q, 2)
         IN  IF Len(q2) >= 0 /\ BCmp(r2, d) >= 0
             THEN BLongDiv(BAdd(q2, <<1>>), BSub(r2, d), d, k - 1)
             ELSE BLongDiv(q2, r2, d, k - 1)

(***************************************************************************)
(* binary64: value = (neg ? -1 : 1) * m * 2^e, with m = 0 or               *)
(* 2^52 <= m < 2^53.                                                       *)
(***************************************************************************)
Precision == 53

FZero(neg) == [neg |-> neg, m |-> <<>>, e |-> 0]

\* a significand that rounding may have carried to 2^53 is renormalised
FPack(neg, q, E) ==
    IF BBitLen(q) > Precision THEN [neg |-> neg, m |-> BShr(q, 1), e |-> E + 1]
    ELSE [neg |-> neg, m |-> q, e |-> E]

\* q is the kept part of M; the dropped part is compared with one half of
\* the last kept place: round up above one half, and at one half when q is odd
FRoundCut(neg, M, E, sh, q) ==
    FPack(neg,
          IF BCmp(BSub(M, BShl(q, sh)), BShl(<<1>>, sh - 1))
                 > (IF BIsOdd(q) THEN -1 ELSE 0)
          THEN BAdd(q, <<1>>) ELSE q,
          E + sh)

FRoundLen(neg, M, E, L) ==
    IF L = 0 THEN FZero(neg)
    ELSE IF L <= Precision
    THEN [neg |-> neg, m |-> BShl(M, Precision - L), e |-> E - (Precision - L)]
    ELSE FRoundCut(neg, M, E, L - Precision, BShr(M, L - Precision))

\* the float nearest to (neg ? -1 : 1) * M * 2^E, ties to even
FRound(neg, M, E) == FRoundLen(neg, M, E, BBitLen(M))

FromInt(n) == IF n < 0 THEN FRound(TRUE, BFromInt(-n), 0)
                       ELSE FRound(FALSE, BFromInt(n), 0)

FNeg(x) == [x EXCEPT !.neg = ~x.neg]

FIsZero(x) == x.m = <<>>

\* -1, 0, 1 as |x| < |y|, |x| = |y|, |x| > |y|
FCmpAbs(x, y) ==
    IF FIsZero(x) THEN (IF FIsZero(y) THEN 0 ELSE -1)
    ELSE IF FIsZero(y) THEN 1
    ELSE IF x.e < y.e THEN -1
    ELSE IF x.e > y.e THEN 1
    ELSE BCmp(x.m, y.m)

\* -1, 0, 1 as x < y, x == y, x > y (Python's comparison: -0.0 == 0.0)
FCmp(x, y) ==
    IF FIsZero(x) /\ FIsZero(y) THEN 0
    ELSE IF x.neg /\ ~y.neg THEN -1
    ELSE IF ~x.neg /\ y.neg THEN 1
    ELSE IF x.neg THEN -FCmpAbs(x, y) ELSE FCmpAbs(x, y)

FLe(x, y) == FCmp(x, y) <= 0
FLt(x, y) == FCmp(x, y) < 0
FEq(x, y) == FCmp(x, y) = 0

\* X and Y are the significands at the common exponent lo
FAddDiff(xneg, yneg, X, Y, lo, c) ==
    IF c = 0 THEN FZero(FALSE)
    ELSE FRound(IF c > 0 THEN xneg ELSE yneg,
                IF c > 0 THEN BSub(X, Y) ELSE BSub(Y, X), lo)

FAddAligned(xneg, yneg, X, Y, lo) ==
    IF xneg = yneg THEN FRound(xneg, BAdd(X, Y), lo)
    ELSE FAddDiff(xneg, yneg, X, Y, lo, BCmp(X, Y))

FAdd(x, y) ==
    IF FIsZero(x) /\ FIsZero(y) THEN FZero(x.neg /\ y.neg)
    ELSE IF FIsZero(x) THEN y
    ELSE IF FIsZero(y) THEN x
    ELSE FAddAligned(x.neg, y.neg, BShl(x.m, x.e - Min2(x.e, y.e)),
                     BShl(y.m, y.e - Min2(x.e, y.e)), Min2(x.e, y.e))

FSub(x, y) == FAdd(x, FNeg(y))

FMul(x, y) ==
    IF FIsZero(x) \/ FIsZero(y) THEN FZero(x.neg # y.neg)
    ELSE FRound(x.neg # y.neg, BMul(x.m, y.m), x.e + y.e)

RECURSIVE IntTrailingZeros(_)
IntTrailingZeros(n) == IF n % 2 = 1 THEN 0 ELSE 1 + IntTrailingZeros(n \div 2)

\* the number of trailing zero bits of a # 0
RECURSIVE BTrailingZeros(_)
BTrailingZeros(a) ==
    IF Head(a) = 0 THEN LimbBits + BTrailingZeros(Tail(a))
    ELSE IntTrailingZeros(Head(a))

\* the quotient bits d.q, doubled, with a last bit set when the division
\* left something (d.r # 0)
FDivQuot(neg, d, E) ==
    FRound(neg, BAdd(BMulSmall(BNorm(d.q), 2), IF d.r # 0 THEN <<1>> ELSE <<>>), E)

FDivTz(x, y, tz) ==
    IF Precision - tz <= LimbBits
    THEN FDivQuot(x.neg # y.neg,
                  BDivModSmall(BShl(x.m, LimbBits + 3), BToInt(BShr(y.m, tz))),
                  x.e - y.e - tz - (LimbBits + 3) - 1)
    ELSE FDivQuot(x.neg # y.neg,
                  BLongDiv(IF BCmp(x.m, y.m) >= 0 THEN <<1>> ELSE <<>>,
                           IF BCmp(x.m, y.m) >= 0 THEN BSub(x.m, y.m) ELSE x.m,
                           y.m, Precision + 3),
                  x.e - y.e - (Precision + 3) - 1)

\* x / y, y # 0: at least 56 quotient bits and a sticky bit decide the
\* rounding.  A divisor whose odd part fits one limb is divided limb by
\* limb, any other bit by bit; both give the exact quotient's rounding.
FDiv(x, y) ==
    IF FIsZero(x) THEN FZero(x.neg # y.neg)
    ELSE FDivTz(x, y, BTrailingZeros(y.m))

\* the float a decimal literal num/den denotes (the nearest float)
Dec(num, den) == FDiv(FromInt(num), FromInt(den))

\* the integer part of |x|
FAbsFloor(x) ==
    IF x.e >= 0 THEN BToInt(BShl(x.m, x.e)) ELSE BToInt(BShr(x.m, -x.e))

\* int(x): truncation toward zero
FTrunc(x) ==
    IF FIsZero(x) THEN 0
    ELSE IF x.neg THEN -FAbsFloor(x) ELSE FAbsFloor(x)

FIsInteger(x) ==
    FIsZero(x) \/ x.e >= 0 \/ BCmp(BShl(BShr(x.m, -x.e), -x.e), x.m) = 0

\* math.ceil(x)
FCeil(x) ==
    IF x.neg \/ FIsInteger(x) THEN FTrunc(x) ELSE FTrunc(x) + 1

FMin(x, y) == IF FLt(y, x) THEN y ELSE x
FMax(x, y) == IF FLt(x, y) THEN y ELSE x

(***************************************************************************)
(* round(x, 1) and str(): Python rounds the exact binary value to one      *)
(* decimal, ties to even, and prints the shortest decimal that reads back  *)
(* as the result, which is that one-decimal number.  A rounded value is    *)
(* kept as its sign and its number of tenths.                              *)
(***************************************************************************)
BRoundCut(M, sh, q) ==
    IF BCmp(BSub(M, BShl(q, sh)), BShl(<<1>>, sh - 1)) > (IF BIsOdd(q) THEN -1 ELSE 0)
    THEN BToInt(q) + 1 ELSE BToInt(q)

\* the integer nearest to M * 2^E, ties to even
BRoundToInt(M, E) ==
    IF E >= 0 THEN BToInt(BShl(M, E)) ELSE BRoundCut(M, -E, BShr(M, -E))

Round1(x) == [neg |-> x.neg, tenths |-> BRoundToInt(BMulSmall(x.m, 10), x.e)]

\* the numeric value of a rounded float, in tenths: what == and < compare
RoundedValue(r) == IF r.neg THEN -r.tenths ELSE r.tenths

\* str(r)
RoundedStr(r) ==
    (IF r.neg THEN "-" ELSE "") \o ToString(r.tenths \div 10) \o "."
        \o ToString(r.tenths % 10)

(***************************************************************************)
(* Shape sorter constants                                                  *)
(***************************************************************************)
COLORS == <<
    <<"red", <<248, 113, 113>>>>,
    <<"yellow", <<250, 204, 21>>>>,
    <<"blue", <<96, 165, 250>>>>,
    <<"green", <<74, 222, 128>>>>,
    <<"purple", <<192, 132, 252>>>>,
    <<"orange", <<251, 146, 60>>>> >>

SHAPES == <<"circle", "square", "triangle", "star", "hexagon", "diamond">>

\* Python orders strings by code point: the rank of each palette name among
\* the names of its palette
StrRank(name) ==
    CASE name = "circle" -> 1 [] name = "diamond" -> 2 [] name = "hexagon" -> 3
      [] name = "square" -> 4 [] name = "star" -> 5 [] name = "triangle" -> 6
      [] name = "blue" -> 1 [] name = "green" -> 2 [] name = "orange" -> 3
      [] name = "purple" -> 4 [] name = "red" -> 5 [] name = "yellow" -> 6

ShapeSpec(shape, color, start, target, size) ==
    [shape |-> shape, color_name |-> color[1], color_rgb |-> color[2],
     start |-> start, target |-> target, size |-> size]

label(spec) == spec.color_name \o " " \o spec.shape

(***************************************************************************)
(* The random source.  random.sample(pop, k) is the first k entries of a   *)
(* random ordering of pop: its outcome is a permutation perm of the        *)
(* positions of pop.  random.choices(pop, k) is a sequence of k positions, *)
(* the first k entries of picks.  random.random() returns the next float   *)
(* of a stream rnd of floats in [0, 1).                                    *)
(***************************************************************************)
random_sample(pop, k, perm) == [i \in 1..k |-> pop[perm[i]]]

random_choices(pop, k, picks) == [i \in 1..k |-> pop[picks[i]]]

\* the random() results of stream s: thousandths, scattered over [0, 1)
MaxDraws == 4 * Len(SHAPES)
NumStreams == 2
RandomStreams ==
    [s \in 1..NumStreams |-> [k \in 1..MaxDraws |-> Dec((s * 37 + k * 611) % 1000, 1000)]]

\* random.uniform(a, b) == a + (b - a) * random()
random_uniform(a, b, r) == FAdd(a, FMul(FSub(b, a), r))

(***************************************************************************)
(* Layout engine.  The float literals of the source, each the float        *)
(* nearest to the decimal written there.                                   *)
(***************************************************************************)
F0 == FromInt(0)
F0_5 == Dec(5, 10)
F0_55 == Dec(55, 100)
F90 == FromInt(90)

_choose_layout(count) ==
    IF count <= 2 THEN "line"
    ELSE IF count = 3 THEN "staggered"
    ELSE IF count = 4 THEN "grid"
    ELSE "scatter"

\* a table that gives staggered two columns on both sides
LayoutColumnsBothSides(layout, side) ==
    CASE layout = "line" -> 1
      [] layout = "staggered" -> 2
      [] layout = "grid" -> 2
      [] layout = "scatter" -> 2
      [] OTHER -> 1

_layout_columns(layout, side) ==
    CASE layout = "line" -> 1
      [] layout = "staggered" -> (IF side = "cards" THEN 2 ELSE 1)
      [] layout = "grid" -> 2
      [] layout = "scatter" -> 2
      [] OTHER -> 1

\* a table whose scatter cards are jittered by 0.3 of the range
LayoutJitterWide(layout, side) ==
    CASE layout = "line" -> F0
      [] layout = "staggered" -> (IF side = "cards" THEN Dec(15, 1000) ELSE F0)
      [] layout = "grid" -> Dec(1, 100)
      [] layout = "scatter" -> (IF side = "cards" THEN Dec(3, 10) ELSE Dec(15, 1000))
      [] OTHER -> F0

_layout_jitter(layout, side) ==
    CASE layout = "line" -> F0
      [] layout = "staggered" -> (IF side = "cards" THEN Dec(15, 1000) ELSE F0)
      [] layout = "grid" -> Dec(1, 100)
      [] layout = "scatter" -> (IF side = "cards" THEN Dec(3, 100) ELSE Dec(15, 1000))
      [] OTHER -> F0

\* lo + (k + 0.5) / n * extent: the centre of cell k of n along one axis
CellCentre(lo, k, n, extent) ==
    FAdd(lo, FMul(FDiv(FAdd(FromInt(k), F0_5), FromInt(n)), extent))

\* if jitter > 0: v += random.uniform(-jitter, jitter) * extent
Jittered(v, jitter, r, extent) ==
    IF FLt(F0, jitter) THEN FAdd(v, FMul(random_uniform(FNeg(jitter), jitter, r), extent))
    ELSE v

\* the position of index idx (0-based); x_w and y_h are x_range[1] - x_range[0]
\* and y_range[1] - y_range[0]; rnd is the stream of random() results left when
\* the call starts, of which index idx takes two
PositionAt(idx, columns, rows, x_lo, x_w, y_lo, y_h, jitter, rnd) ==
    <<Jittered(CellCentre(x_lo, idx % columns, columns, x_w), jitter,
               rnd[2 * idx + 1], x_w),
      Jittered(CellCentre(y_lo, idx \div columns, rows, y_h), jitter,
               rnd[2 * idx + 2], y_h)>>

\* the number of random() calls one _generate_positions call makes
DrawsUsed(count, jitter) == IF FLt(F0, jitter) THEN 2 * count ELSE 0

GridPositions(count, columns, rows, x_lo, x_w, y_lo, y_h, jitter, rnd) ==
    [positions |-> [i \in 1..count |->
                      PositionAt(i - 1, columns, rows, x_lo, x_w, y_lo, y_h, jitter, rnd)],
     size |-> FMin(FMin(F90, FMul(FDiv(x_w, FromInt(columns)), F0_55)),
                   FMul(FDiv(y_h, FromInt(rows)), F0_55))]

_generate_positions(count, columns, x_range, y_range, jitter, rnd) ==
    GridPositions(count, Max2(1, columns),
                  FCeil(FDiv(FromInt(count), FromInt(Max2(1, columns)))),
                  x_range[1], FSub(x_range[2], x_range[1]),
                  y_range[1], FSub(y_range[2], y_range[1]), jitter, rnd)

_sample_shapes(count, perm, picks) ==
    IF count <= Len(SHAPES) THEN random_sample(SHAPES, count, perm)
    ELSE random_sample(SHAPES, Len(SHAPES), perm)
             \o random_choices(SHAPES, count - Len(SHAPES), picks)

\* a sampling that forgets the entries beyond the palette
SampleColorsPaletteOnly(count, perm, picks) ==
    random_sample(COLORS, Min2(count, Len(COLORS)), perm)

_sample_colors(count, perm, picks) ==
    IF count <= Len(COLORS) THEN random_sample(COLORS, count, perm)
    ELSE random_sample(COLORS, Len(COLORS), perm)
             \o random_choices(COLORS, count - Len(COLORS), picks)

CardXRange(w) == <<FMul(Dec(12, 100), FromInt(w)), FMul(Dec(4, 10), FromInt(w))>>
SlotXRange(w) == <<FMul(Dec(6, 10), FromInt(w)), FMul(Dec(88, 100), FromInt(w))>>
YRange(h) == <<FMul(Dec(18, 100), FromInt(h)), FMul(Dec(82, 100), FromInt(h))>>

\* a placement that keeps the larger of the two sizes
PlacementOfLarger(layout_variant, cards, slots) ==
    [layout_variant |-> layout_variant, cards |-> cards.positions,
     slots |-> slots.positions, card_size |-> cards.size,
     slot_size |-> slots.size, size |-> FMax(cards.size, slots.size)]

PlacementOf(layout_variant, cards, slots) ==
    [layout_variant |-> layout_variant, cards |-> cards.positions,
     slots |-> slots.positions, card_size |-> cards.size,
     slot_size |-> slots.size, size |-> FMin(cards.size, slots.size)]

\* the two _generate_positions calls of _create_specs and the size it keeps
PlacementIn(layout_variant, canvas, count, rnd) ==
    PlacementOf(layout_variant,
        _generate_positions(count, _layout_columns(layout_variant, "cards"),
            CardXRange(canvas[1]), YRange(canvas[2]),
            _layout_jitter(layout_variant, "cards"), rnd),
        _generate_positions(count, _layout_columns(layout_variant, "slots"),
            SlotXRange(canvas[1]), YRange(canvas[2]),
            _layout_jitter(layout_variant, "slots"),
            [k \in 1..(MaxDraws - 2 * count) |->
                rnd[DrawsUsed(count, _layout_jitter(layout_variant, "cards")) + k]]))

Placement(canvas, count, rnd) == PlacementIn(_choose_layout(count), canvas, count, rnd)

BindSpecs(count, pl, shapes, colors) ==
    [specs |-> [i \in 1..count |->
                  ShapeSpec(shapes[i], colors[i], pl.cards[i], pl.slots[i], pl.size)],
     layout_variant |-> pl.layout_variant]

\* rng: the outcomes of the random calls _create_specs makes, in order: the
\* random() stream rnd, then the orderings and picks of the shape and the
\* colour sampling
_create_specs(canvas, count, rng) ==
    BindSpecs(count, Placement(canvas, count, rng.rnd),
              _sample_shapes(count, rng.shape_perm, rng.shape_picks),
              _sample_colors(count, rng.color_perm, rng.color_picks))

(***************************************************************************)
(* Signature                                                               *)
(***************************************************************************)
Quantize(spec) ==
    <<spec.shape, spec.color_name, Round1(spec.start[1]), Round1(spec.start[2]),
      Round1(spec.target[1]), Round1(spec.target[2]), Round1(spec.size)>>

\* Python's tuple comparison a < b: the first differing entry decides
RECURSIVE ItemLess(_, _, _)
ItemLess(a, b, i) ==
    IF i > Len(a) THEN FALSE
    ELSE LET x == IF i <= 2 THEN StrRank(a[i]) ELSE RoundedValue(a[i])
             y == IF i <= 2 THEN StrRank(b[i]) ELSE RoundedValue(b[i])
         IN  IF x < y THEN TRUE
             ELSE IF x > y THEN FALSE
             ELSE ItemLess(a, b, i + 1)

\* list.sort() is stable: x goes after every entry that is not greater
RECURSIVE InsertSorted(_, _)
InsertSorted(x, sorted) ==
    IF sorted = <<>> THEN <<x>>
    ELSE IF ItemLess(x, Head(sorted), 1) THEN <<x>> \o sorted
    ELSE <<Head(sorted)>> \o InsertSorted(x, Tail(sorted))

\* a sort that is left out: the items stay in list order
KeepOrder(items, n) == items

RECURSIVE SortItems(_, _)
SortItems(items, n) ==
    IF n = 0 THEN <<>> ELSE InsertSorted(items[n], SortItems(items, n - 1))

ItemStr(item) ==
    item[1] \o "," \o item[2] \o "," \o RoundedStr(item[3]) \o ","
        \o RoundedStr(item[4]) \o "," \o RoundedStr(item[5]) \o ","
        \o RoundedStr(item[6]) \o "," \o RoundedStr(item[7])

RECURSIVE JoinItems(_)
JoinItems(items) ==
    IF items = <<>> THEN ""
    ELSE IF Len(items) = 1 THEN ItemStr(items[1])
    ELSE ItemStr(Head(items)) \o "|" \o JoinItems(Tail(items))

_build_signature(specs, layout_variant) ==
    layout_variant \o "|" \o ToString(Len(specs)) \o "|"
        \o JoinItems(SortItems([i \in 1..Len(specs) |-> Quantize(specs[i])], Len(specs)))

(***************************************************************************)
(* Renderer.  An image is the list of shapes drawn on it, in drawing order,*)
(* over the background and the divider that _draw_layout draws from the    *)
(* canvas size alone.  _draw_shape is kept as its arguments, not as pixels.*)
(***************************************************************************)
outline_color == <<100, 116, 139>>

\* every outline the program draws has linewidth 3
_draw_shape(center, size, shape, color, filled) ==
    [center |-> center, size |-> size, shape |-> shape, color |-> color,
     filled |-> filled]

DrawOutlines(specs) ==
    [i \in 1..Len(specs) |->
        _draw_shape(specs[i].target, specs[i].size, specs[i].shape, outline_color,
                    FALSE)]

NewImage(canvas, shapes) == [canvas |-> canvas, shapes |-> shapes]

render_start(canvas, specs) ==
    NewImage(canvas, DrawOutlines(specs) \o
        [i \in 1..Len(specs) |->
            _draw_shape(specs[i].start, specs[i].size, specs[i].shape,
                        specs[i].color_rgb, TRUE)])

render_end(canvas, specs) ==
    NewImage(canvas,
        [i \in 1..Len(specs) |->
            _draw_shape(specs[i].target, specs[i].size, specs[i].shape,
                        specs[i].color_rgb, TRUE)])

(***************************************************************************)
(* Animator                                                                *)
(***************************************************************************)
\* a frame that draws the moving card at its target already
RenderFrameMovedEarly(canvas, original_specs, moving_card_idx, current_pos) ==
    NewImage(canvas, DrawOutlines(original_specs) \o
        [j \in 1..Len(original_specs) |->
            _draw_shape(IF j - 1 <= moving_card_idx THEN original_specs[j].target
                        ELSE original_specs[j].start,
                        original_specs[j].size, original_specs[j].shape,
                        original_specs[j].color_rgb, TRUE)])

\* moving_card_idx is 0-based, as in the source
_render_animation_frame(canvas, original_specs, moving_card_idx, current_pos) ==
    NewImage(canvas, DrawOutlines(original_specs) \o
        [j \in 1..Len(original_specs) |->
            LET idx  == j - 1
                spec == original_specs[j]
                pos  == IF idx < moving_card_idx THEN spec.target
                        ELSE IF idx = moving_card_idx THEN current_pos
                        ELSE spec.start
            IN  _draw_shape(pos, spec.size, spec.shape, spec.color_rgb, TRUE)])

\* progress that divides by the number of frames, not by the last index
ProgressOverCount(i, transition_frames) ==
    IF transition_frames > 1 THEN FDiv(FromInt(i), FromInt(transition_frames))
    ELSE FromInt(1)

Progress(i, transition_frames) ==
    IF transition_frames > 1 THEN FDiv(FromInt(i), FromInt(transition_frames - 1))
    ELSE FromInt(1)

Lerp(a, b, progress) == FAdd(a, FMul(FSub(b, a), progress))

CurrentPosAt(spec, progress) ==
    <<Lerp(spec.start[1], spec.target[1], progress),
      Lerp(spec.start[2], spec.target[2], progress)>>

\* current_x, current_y of frame i of a card's transition
CurrentPos(spec, i, transition_frames) ==
    CurrentPosAt(spec, Progress(i, transition_frames))

\* the inner loop: for i in range(transition_frames), from i on
RECURSIVE CardFrames(_, _, _, _, _)
CardFrames(canvas, original_specs, card_idx, i, transition_frames) ==
    IF i >= transition_frames THEN <<>>
    ELSE <<_render_animation_frame(canvas, original_specs, card_idx,
              CurrentPos(original_specs[card_idx + 1], i, transition_frames))>>
         \o CardFrames(canvas, original_specs, card_idx, i + 1, transition_frames)

\* the outer loop: for card_idx, original_spec in enumerate(original_specs)
RECURSIVE AllCardFrames(_, _, _, _)
AllCardFrames(canvas, original_specs, card_idx, transition_frames) ==
    IF card_idx >= Len(original_specs) THEN <<>>
    ELSE CardFrames(canvas, original_specs, card_idx, 0, transition_frames)
         \o AllCardFrames(canvas, original_specs, card_idx + 1, transition_frames)

\* a hold loop that runs once more
HoldOneMore(frame, n) == [k \in 1..(n + 1) |-> frame]

\* for _ in range(n): frames.append(frame.copy())
Hold(frame, n) == [k \in 1..n |-> frame]

_create_animation_frames(canvas, specs, hold_frames, transition_frames) ==
    Hold(render_start(canvas, specs), hold_frames)
        \o AllCardFrames(canvas, specs, 0, transition_frames)
        \o Hold(render_end(canvas, specs), hold_frames)

(***************************************************************************)
(* Prompts                                                                 *)
(***************************************************************************)
\* each template as the text before and after its {shape_summary} field
PROMPT_TEMPLATES ==
    <<[before |-> "Move each colored shape card from the left staging area into its matching outline on the right. Keep the camera fixed in the top-down view, move only one card at a time, and slide the cards smoothly without teleportation. ",
       after |-> " Stop the video when every outline is filled exactly."],
      [before |-> "Solve the flat shape sorter puzzle exactly as shown. Starting from the unsolved first frame, drag the colored cards across the board and place them into the matching outlines on the right. ",
       after |-> " Keep the board orientation unchanged and end once all outlines are packed tightly."]>>

\* ", ".join(labels)
RECURSIVE JoinLabels(_)
JoinLabels(labels) ==
    IF labels = <<>> THEN ""
    ELSE IF Len(labels) = 1 THEN labels[1]
    ELSE labels[1] \o ", " \o JoinLabels(Tail(labels))

format_shape_summary(shape_labels) ==
    LET labels == SelectSeq(shape_labels, LAMBDA l : l # "")
    IN  IF labels = <<>> THEN ""
        ELSE IF Len(labels) = 1
        THEN "Match the " \o labels[1] \o " card to its outline."
        ELSE IF Len(labels) = 2
        THEN "Match the " \o labels[1] \o " card first, followed by the "
                 \o labels[2] \o " card."
        ELSE "Match the " \o JoinLabels(SubSeq(labels, 1, Len(labels) - 1))
                 \o ", and finally the " \o labels[Len(labels)] \o " card."

\* template: the index random.choice picks
get_prompt(shape_labels, template) ==
    PROMPT_TEMPLATES[template].before
        \o (IF shape_labels # <<>> THEN format_shape_summary(shape_labels) ELSE "")
        \o PROMPT_TEMPLATES[template].after

(***************************************************************************)
(* Task generation and video generation: the steps of generate_task_pair   *)
(* as operators on the values they use.                                    *)
(***************************************************************************)
\* the results random.randint can give
_shape_count_for_difficulty(difficulty) ==
    IF difficulty = "easy" THEN 2..3
    ELSE IF difficulty = "hard" THEN 5..6
    ELSE 3..5

\* one generation of the attempt loop: the specs, their layout and signature
Generation(t) ==
    [specs |-> t.specs, layout_variant |-> t.layout_variant,
     signature |-> _build_signature(t.specs, t.layout_variant)]

\* the dict _generate_task_data returns
TaskData(g, difficulty, num_shapes) ==
    [specs |-> g.specs, layout_variant |-> g.layout_variant,
     difficulty |-> difficulty, num_shapes |-> num_shapes]

\* a str and a Path are kept apart; str(path) is the str of its text
Path(text) == [path |-> text]
PathToStr(path) == [str |-> path.path]

\* temp_dir / f"{task_id}_ground_truth.mp4"
VideoPath(domain, task_id) ==
    Path("/tmp/" \o domain \o "_videos/" \o task_id \o "_ground_truth.mp4")

\* a count that rounds the share of each card up
TransitionFramesRoundedUp(available_frames, num_cards) ==
    Max2(10, FCeil(FDiv(FromInt(available_frames), FromInt(num_cards))))

\* a transition length taken from the budget alone
TransitionFramesUnclamped(available_frames, num_cards) ==
    FTrunc(FDiv(FromInt(available_frames), FromInt(num_cards)))

\* max(10, int(available_frames / num_cards))
TransitionFrames(available_frames, num_cards) ==
    Max2(10, FTrunc(FDiv(FromInt(available_frames), FromInt(num_cards))))

hold_frames == 3

\* int(self.config.max_video_duration * self.config.video_fps)
MaxFrames(cfg) == FTrunc(FMul(cfg.max_video_duration, FromInt(cfg.video_fps)))

\* the locals of _generate_video once the frames are built and the encoder
\* has returned result
_generate_video(cfg, specs, result) ==
    LET max_frames == MaxFrames(cfg)
        available_frames == max_frames - 2 * hold_frames
        transition_frames == TransitionFrames(available_frames, Len(specs))
    IN  [num_cards |-> Len(specs), max_frames |-> max_frames,
         hold_frames |-> hold_frames, available_frames |-> available_frames,
         transition_frames |-> transition_frames,
         frames |-> _create_animation_frames(cfg.image_size, specs, hold_frames,
                                             transition_frames),
         result |-> result]

\* the TaskPair generate_task_pair returns
TaskPair(task_id, domain, prompt, first_image, final_image, ground_truth_video) ==
    [task_id |-> task_id, domain |-> domain, prompt |-> prompt,
     first_image |-> first_image, final_image |-> final_image,
     ground_truth_video |-> ground_truth_video]

Labels(specs) == [i \in 1..Len(specs) |-> label(specs[i])]

(***************************************************************************)
(* State.  pc is the position of the run; args and ret are the arguments   *)
(* and the result of the function a run applies.  The rest is the state of *)
(* one TaskGenerator: its configuration, self.video_generator (whether it  *)
(* is set), self._seen_signatures, and the locals of the call in progress. *)
(***************************************************************************)
VARIABLES pc, args, ret, config, video_generator, _seen_signatures, attempt,
          task_data, task_pair, returned

vars == <<pc, args, ret, config, video_generator, _seen_signatures, attempt,
          task_data, task_pair, returned>>

generator_vars == <<config, video_generator, _seen_signatures, attempt,
                    task_data, task_pair, returned>>

None == <<>>

\* no generator is part of a run that applies one function
NoGenerator ==
    /\ config = None
    /\ video_generator = FALSE
    /\ _seen_signatures = {}
    /\ attempt = 0
    /\ task_data = None
    /\ task_pair = None
    /\ returned = <<>>

(***************************************************************************)
(* Inputs.  Canvas sizes the configuration may give; the random outcomes   *)
(* considered for one _create_specs call: a random() stream and, for the   *)
(* two samplings, the palette rotated by shape_rot and color_rot places.   *)
(***************************************************************************)
Canvases == {<<1024, 1024>>, <<1920, 1080>>, <<600, 600>>}

MinShapes == 2
MaxShapes == 6

NumRotations == 2

Rotation(n, r) == [i \in 1..n |-> ((i - 1 + r) % n) + 1]

Rng(stream, shape_rot, color_rot) ==
    [rnd |-> RandomStreams[stream],
     shape_perm |-> Rotation(Len(SHAPES), shape_rot), shape_picks |-> <<>>,
     color_perm |-> Rotation(Len(COLORS), color_rot), color_picks |-> <<>>]

(***************************************************************************)
(* One TaskGenerator from its construction on: generate_task_pair is       *)
(* called up to MaxCalls times.  config is the TaskConfig; args is the     *)
(* environment and the call in progress: whether the video backend is      *)
(* available at construction, the task id, and the difficulty and shape    *)
(* count of _generate_task_data.  ret is the locals of generate_task_pair: *)
(* the two images, the video path, and the locals of _generate_video;      *)
(* task_data, ret and task_pair are those of the latest call, None from    *)
(* the start of a call until the call sets them.  attempt counts the       *)
(* passes of the loop of _generate_task_data that collided, 0 outside it.  *)
(* returned lists, for every _generate_task_data call that returned, the   *)
(* signature of its task and whether an attempt of the loop returned it.   *)
(***************************************************************************)
MaxCalls == 2
MaxAttempts == 25

Configs ==
    [image_size : {<<1024, 1024>>}, difficulty : {"", "easy"},
     generate_videos : BOOLEAN, max_video_duration : {FromInt(1)},
     video_fps : {10}, domain : {"shape_sorter"}]

\* self.config.difficulty or "medium"
Difficulty(cfg) == IF cfg.difficulty = "" THEN "medium" ELSE cfg.difficulty

TaskId(n) == "shape_sorter_" \o ToString(n)

\* the random outcomes of one pass: one random() stream, any rotation
RngKeys == {1} \X (0..(NumRotations - 1))

\* what one pass of the attempt loop can generate, with the canvas, the count
\* and the random outcome it comes from
Generations ==
    {[canvas |-> c, count |-> n, key |-> k,
      task |-> Generation(_create_specs(c, n, Rng(k[1], k[2], k[2])))] :
        c \in {cfg.image_size : cfg \in Configs}, n \in MinShapes..MaxShapes,
        k \in RngKeys}

Generated(canvas, count) ==
    {x.task : x \in {y \in Generations : y.canvas = canvas /\ y.count = count}}

Init ==
    /\ pc = "new"
    /\ config \in Configs
    /\ args \in [is_available : BOOLEAN, task_id : {""}, difficulty : {""},
                 num_shapes : {0}]
    /\ ret = None
    /\ video_generator = FALSE
    /\ _seen_signatures = {}
    /\ attempt = 0
    /\ task_data = None
    /\ task_pair = None
    /\ returned = <<>>

\* a constructor that sets the video generator whenever videos are enabled
ConstructIgnoringBackend ==
    /\ pc = "new"
    /\ pc' = "idle"
    /\ _seen_signatures' = {}
    /\ video_generator' = config.generate_videos
    /\ UNCHANGED <<args, ret, config, attempt, task_data, task_pair, returned>>

\* __init__
Construct ==
    /\ pc = "new"
    /\ pc' = "idle"
    /\ _seen_signatures' = {}
    /\ video_generator' = (config.generate_videos /\ args.is_available)
    /\ UNCHANGED <<args, ret, config, attempt, task_data, task_pair, returned>>

\* generate_task_pair is called and enters _generate_task_data
CallGenerateTaskPair ==
    /\ pc = "idle"
    /\ Len(returned) < MaxCalls
    /\ \E num_shapes \in _shape_count_for_difficulty(Difficulty(config)) :
          args' = [args EXCEPT !.task_id = TaskId(Len(returned)),
                               !.difficulty = Difficulty(config),
                               !.num_shapes = num_shapes]
    /\ attempt' = 0
    /\ ret' = None
    /\ task_data' = None
    /\ task_pair' = None
    /\ pc' = "attempt"
    /\ UNCHANGED <<config, video_generator, _seen_signatures, returned>>

\* a pass that returns a new signature without adding it to the set
AttemptUnseenUnrecorded ==
    /\ pc = "attempt"
    /\ attempt < MaxAttempts
    /\ \E g \in Generated(config.image_size, args.num_shapes) :
              /\ g.signature \notin _seen_signatures
              /\ task_data' = TaskData(g, args.difficulty, args.num_shapes)
              /\ returned' = Append(returned, [signature |-> g.signature,
                                               checked |-> TRUE])
    /\ attempt' = 0
    /\ pc' = "render"
    /\ UNCHANGED <<args, ret, config, video_generator, _seen_signatures, task_pair>>

\* a pass of the loop whose signature is new: it is recorded and returned
AttemptUnseen ==
    /\ pc = "attempt"
    /\ attempt < MaxAttempts
    /\ \E g \in Generated(config.image_size, args.num_shapes) :
              /\ g.signature \notin _seen_signatures
              /\ _seen_signatures' = _seen_signatures \cup {g.signature}
              /\ task_data' = TaskData(g, args.difficulty, args.num_shapes)
              /\ returned' = Append(returned, [signature |-> g.signature,
                                               checked |-> TRUE])
    /\ attempt' = 0
    /\ pc' = "render"
    /\ UNCHANGED <<args, ret, config, video_generator, task_pair>>

\* a pass of the loop whose signature is in the set: the loop goes on
AttemptSeen ==
    /\ pc = "attempt"
    /\ attempt < MaxAttempts
    /\ \E g \in Generated(config.image_size, args.num_shapes) :
          g.signature \in _seen_signatures
    /\ attempt' = attempt + 1
    /\ UNCHANGED <<pc, args, ret, config, video_generator, _seen_signatures,
                   task_data, task_pair, returned>>

\* a fallback that records the signature of what it returns
FallbackRecording ==
    /\ pc = "attempt"
    /\ attempt = MaxAttempts
    /\ \E g \in Generated(config.image_size, args.num_shapes) :
              /\ _seen_signatures' = _seen_signatures \cup {g.signature}
              /\ task_data' = TaskData(g, args.difficulty, args.num_shapes)
              /\ returned' = Append(returned, [signature |-> g.signature,
                                               checked |-> FALSE])
    /\ attempt' = 0
    /\ pc' = "render"
    /\ UNCHANGED <<args, ret, config, video_generator, task_pair>>

\* the loop is exhausted: one more generation is returned as it is
Fallback ==
    /\ pc = "attempt"
    /\ attempt = MaxAttempts
    /\ \E g \in Generated(config.image_size, args.num_shapes) :
              /\ task_data' = TaskData(g, args.difficulty, args.num_shapes)
              /\ returned' = Append(returned, [signature |-> g.signature,
                                               checked |-> FALSE])
    /\ attempt' = 0
    /\ pc' = "render"
    /\ UNCHANGED <<args, ret, config, video_generator, _seen_signatures, task_pair>>

\* the two images; the video step follows if videos are enabled and the
\* video generator is set
Render ==
    /\ pc = "render"
    /\ ret' = [first_image |-> render_start(config.image_size, task_data.specs),
               final_image |-> render_end(config.image_size, task_data.specs),
               video_path |-> None, video |-> None]
    /\ pc' = IF config.generate_videos /\ video_generator THEN "video" ELSE "prompt"
    /\ UNCHANGED <<args, generator_vars>>

\* _generate_video; result is what the encoder returns: a path or None
GenerateVideo ==
    /\ pc = "video"
    /\ \E result \in {None, VideoPath(config.domain, args.task_id)} :
          ret' = [ret EXCEPT
                    !.video = _generate_video(config, task_data.specs, result),
                    !.video_path = IF result # None THEN PathToStr(result) ELSE None]
    /\ pc' = "prompt"
    /\ UNCHANGED <<args, generator_vars>>

\* the prompt is chosen and the TaskPair is returned
Return ==
    /\ pc = "prompt"
    /\ \E template \in 1..Len(PROMPT_TEMPLATES) :
          task_pair' = TaskPair(args.task_id, config.domain,
                                get_prompt(Labels(task_data.specs), template),
                                ret.first_image, ret.final_image, ret.video_path)
    /\ pc' = "idle"
    /\ UNCHANGED <<args, ret, config, video_generator, _seen_signatures, attempt,
                   task_data, returned>>

Next ==
    \/ Construct
    \/ CallGenerateTaskPair
    \/ AttemptUnseen
    \/ AttemptSeen
    \/ Fallback
    \/ Render
    \/ GenerateVideo
    \/ Return

Spec == Init /\ [][Next]_vars

\* the signature of the task the latest _generate_task_data call returned
LastReturned == returned[Len(returned)]

\* C1: a step that leaves the attempt loop after fewer than 25 collisions
\* returns a task whose signature was not in the set and adds it; a step that
\* stays in the loop counts one more collision, up to 25, and changes
\* nothing else; after 25 collisions the next step returns a generation
\* unchecked and leaves the set as it is; and the loop can always take a
\* step, so the call does not fail.
C1_AttemptLoop ==
    [][pc = "attempt" =>
          /\ attempt \in 0..25
          /\ ENABLED (AttemptUnseen \/ AttemptSeen \/ Fallback)
          /\ pc' = "attempt" =>
                /\ attempt < 25
                /\ attempt' = attempt + 1
                /\ _seen_signatures' = _seen_signatures
                /\ returned' = returned
          /\ pc' # "attempt" =>
                /\ pc' = "render"
                /\ Len(returned') = Len(returned) + 1
                /\ task_data'.specs \in
                      {g.specs : g \in {x \in Generated(config.image_size, args.num_shapes) :
                                          x.signature = returned'[Len(returned')].signature}}
                /\ attempt < 25 =>
                      /\ returned'[Len(returned')].checked
                      /\ returned'[Len(returned')].signature \notin _seen_signatures
                      /\ _seen_signatures' =
                            _seen_signatures \cup {returned'[Len(returned')].signature}
                /\ attempt = 25 =>
                      /\ ~returned'[Len(returned')].checked
                      /\ _seen_signatures' = _seen_signatures]_vars

\* a call whose 25 passes all collided has returned a generation whose
\* signature is not in the set, and the set was left without it
C1_Witness ==
    /\ pc = "render"
    /\ Len(returned) = 2
    /\ ~LastReturned.checked
    /\ LastReturned.signature \notin _seen_signatures
    /\ _seen_signatures = {returned[1].signature}

\* C6: the task pair a call returns carries a video path exactly when videos
\* are enabled in the config, the backend was available at construction and
\* the encoder returned a path; in every case it carries the task id, a
\* prompt for its specs and the two images.
C6_VideoOnlyIfEncoded ==
    (pc = "idle" /\ task_pair # None) =>
        /\ task_pair.ground_truth_video # None <=>
              /\ config.generate_videos
              /\ args.is_available
              /\ ret.video # None
              /\ ret.video.result # None
        /\ task_pair.ground_truth_video # None =>
              task_pair.ground_truth_video = PathToStr(ret.video.result)
        /\ task_pair.task_id = args.task_id
        /\ \E template \in 1..Len(PROMPT_TEMPLATES) :
              task_pair.prompt = get_prompt(Labels(task_data.specs), template)
        /\ task_pair.first_image = render_start(config.image_size, task_data.specs)
        /\ task_pair.final_image = render_end(config.image_size, task_data.specs)

\* videos enabled and the backend unavailable at construction: a task pair
\* is returned without a video
C6_Witness ==
    /\ pc = "idle"
    /\ task_pair # None
    /\ config.generate_videos
    /\ ~args.is_available
    /\ task_pair.ground_truth_video = None
    /\ task_pair.first_image # task_pair.final_image

(***************************************************************************)
(* A constructed generator whose _generate_task_data is called up to       *)
(* MaxDataCalls times, each call with any difficulty.  pc = "render" is    *)
(* the state in which a call has returned its task to the caller.          *)
(***************************************************************************)
MaxDataCalls == 3

InitDedup ==
    /\ pc = "idle"
    /\ config \in {cfg \in Configs : ~cfg.generate_videos /\ cfg.difficulty = ""}
    /\ args = [is_available |-> FALSE, task_id |-> "", difficulty |-> "",
               num_shapes |-> 0]
    /\ ret = None
    /\ video_generator = FALSE
    /\ _seen_signatures = {}
    /\ attempt = 0
    /\ task_data = None
    /\ task_pair = None
    /\ returned = <<>>

\* _generate_task_data(difficulty) is called and draws its shape count
CallGenerateTaskData ==
    /\ pc \in {"idle", "render"}
    /\ Len(returned) < MaxDataCalls
    /\ \E difficulty \in {"easy", "medium", "hard"} :
          \E num_shapes \in _shape_count_for_difficulty(difficulty) :
              args' = [args EXCEPT !.difficulty = difficulty,
                                   !.num_shapes = num_shapes]
    /\ attempt' = 0
    /\ task_data' = None
    /\ pc' = "attempt"
    /\ UNCHANGED <<ret, config, video_generator, _seen_signatures, task_pair,
                   returned>>

NextDedup ==
    \/ CallGenerateTaskData
    \/ AttemptUnseen
    \/ AttemptSeen
    \/ Fallback

SpecDedup == InitDedup /\ [][NextDedup]_vars

\* the calls that returned the signature of call j before call j did
EarlierAlike(j) == {i \in 1..(j - 1) : returned[i].signature = returned[j].signature}

\* C12 as claimed: the set of seen signatures never loses an element, no two
\* tasks returned by a checked attempt have the same signature, and a call
\* that returns a signature returned before is a call that fell back.
C12_AsClaimed ==
    /\ [][_seen_signatures \subseteq _seen_signatures']_vars
    /\ [](\A j \in 1..Len(returned) :
            /\ \A i \in EarlierAlike(j) : ~(returned[i].checked /\ returned[j].checked)
            /\ EarlierAlike(j) # {} => ~returned[j].checked)

\* C12, amended: the set of seen signatures never loses an element and is the
\* set of the signatures returned by checked attempts; no two tasks returned
\* by a checked attempt have the same signature; of two calls that returned
\* the same signature at least one fell back, and it may be the earlier one.
C12_Deduplication ==
    /\ [][_seen_signatures \subseteq _seen_signatures']_vars
    /\ [](/\ _seen_signatures =
                {returned[i].signature : i \in {k \in 1..Len(returned) : returned[k].checked}}
          /\ \A j \in 1..Len(returned) :
                \A i \in EarlierAlike(j) : ~returned[i].checked \/ ~returned[j].checked)

\* a call fell back to a signature no call had returned, and the next call
\* returned the same signature from a checked attempt
C12_Witness ==
    /\ pc = "render"
    /\ Len(returned) = 3
    /\ returned[1].checked /\ ~returned[2].checked /\ returned[3].checked
    /\ returned[2].signature # returned[1].signature
    /\ returned[3].signature = returned[2].signature
    /\ _seen_signatures = {returned[1].signature, returned[3].signature}

(***************************************************************************)
(* Runs of _generate_video: a generator at the video step of a call, with  *)
(* the frame rate and the maximum duration of its configuration.           *)
(***************************************************************************)
MaxVideoCards == 3

VideoConfigs ==
    [image_size : {<<1024, 1024>>}, difficulty : {"easy"},
     generate_videos : {TRUE},
     max_video_duration : {Dec(t, 10) : t \in {0, 5, 6, 10, 29, 40, 75}},
     video_fps : {1, 8, 10}, domain : {"shape_sorter"}]

InitVideo ==
    /\ pc = "video"
    /\ config \in VideoConfigs
    /\ video_generator = TRUE
    /\ \E n \in MinShapes..MaxVideoCards :
          \E g \in {Generation(_create_specs(config.image_size, n, Rng(1, 0, 0)))} :
              /\ args = [is_available |-> TRUE, task_id |-> TaskId(0),
                         difficulty |-> "easy", num_shapes |-> n]
              /\ task_data = TaskData(g, "easy", n)
              /\ _seen_signatures = {g.signature}
              /\ returned = <<[signature |-> g.signature, checked |-> TRUE]>>
              /\ ret = [first_image |-> render_start(config.image_size, g.specs),
                        final_image |-> render_end(config.image_size, g.specs),
                        video_path |-> None, video |-> None]
    /\ attempt = 0
    /\ task_pair = None

NextVideo == GenerateVideo

SpecVideo == InitVideo /\ [][NextVideo]_vars

\* C5: _generate_video builds the frames with 3 hold frames and
\* max(10, floor((max_frames - 6) / num_cards)) transition frames, where
\* max_frames is int(max_video_duration * video_fps): at least 10 transition
\* frames for every budget.
C5_TransitionFrames ==
    (pc = "prompt" /\ ret.video # None) =>
        /\ ret.video.hold_frames = 3
        /\ ret.video.max_frames =
              FTrunc(FMul(config.max_video_duration, FromInt(config.video_fps)))
        /\ ret.video.transition_frames =
              Max2(10, (ret.video.max_frames - 2 * 3) \div Len(task_data.specs))
        /\ ret.video.transition_frames >= 10
        /\ ret.video.frames =
              _create_animation_frames(config.image_size, task_data.specs, 3,
                                       ret.video.transition_frames)
        /\ Len(ret.video.frames) = 6 + Len(task_data.specs) * ret.video.transition_frames

\* a budget below the two holds, where truncation and floor differ, still
\* gives 10 transition frames per card
C5_Witness ==
    /\ pc = "prompt"
    /\ ret.video # None
    /\ ret.video.max_frames - 6 < 0
    /\ (ret.video.max_frames - 6) \div Len(task_data.specs)
          # -((6 - ret.video.max_frames) \div Len(task_data.specs))
    /\ ret.video.transition_frames = 10

\* C13: with 3 hold frames, whenever floor((max_frames - 6) / num_cards) is
\* at least 10 the animation has at most max_frames frames; it has more than
\* max_frames frames only when max() selects the floor of 10 transition
\* frames, the share of a card being below 10.
C13_WithinMaxFrames ==
    (pc = "prompt" /\ ret.video # None) =>
        /\ ret.video.hold_frames = 3
        /\ (ret.video.max_frames - 6) \div ret.video.num_cards >= 10 =>
              Len(ret.video.frames) <= ret.video.max_frames
        /\ Len(ret.video.frames) > ret.video.max_frames =>
              /\ ret.video.transition_frames = 10
              /\ (ret.video.max_frames - 6) \div ret.video.num_cards < 10

\* a budget that gives every card more than 10 transition frames and is not
\* a multiple of the card count: the animation ends below max_frames
C13_Witness ==
    /\ pc = "prompt"
    /\ ret.video # None
    /\ (ret.video.max_frames - 6) \div ret.video.num_cards > 10
    /\ (ret.video.max_frames - 6) % ret.video.num_cards # 0
    /\ Len(ret.video.frames) < ret.video.max_frames
    /\ Len(ret.video.frames) + ret.video.num_cards > ret.video.max_frames

(***************************************************************************)
(* Runs of _create_animation_frames on the specs of generated tasks.       *)
(***************************************************************************)
MaxAnimCards == 3
MaxHold == 2
MaxTransition == 4

AnimSpecs ==
    [c \in Canvases, n \in 2..MaxAnimCards, s \in 1..NumStreams |->
        _create_specs(c, n, Rng(s, 0, 0)).specs]

InitAnim ==
    /\ pc = "anim_call"
    /\ args \in {[canvas |-> k[1], specs |-> AnimSpecs[k], hold_frames |-> h,
                  transition_frames |-> t] :
                    k \in DOMAIN AnimSpecs, h \in 0..MaxHold, t \in 0..MaxTransition}
    /\ ret = None
    /\ NoGenerator

CreateAnimationFrames ==
    /\ pc = "anim_call"
    /\ pc' = "anim_done"
    /\ ret' = _create_animation_frames(args.canvas, args.specs, args.hold_frames,
                                       args.transition_frames)
    /\ UNCHANGED <<args, generator_vars>>

NextAnim == CreateAnimationFrames

SpecAnim == InitAnim /\ [][NextAnim]_vars

\* the frame of step i (0-based) of the transition of card k (0-based)
TransitionFrame(k, i) ==
    ret[args.hold_frames + k * args.transition_frames + i + 1]

\* where frame f draws card j (0-based): the cards follow the outlines
CardCentre(f, j) == f.shapes[Len(args.specs) + j + 1].center

SamePoint(p, q) == FEq(p[1], q[1]) /\ FEq(p[2], q[2])

\* C2: in every transition frame of card k, every card before k is drawn at
\* its target, every card after k at its start, card k at the interpolated
\* position of that step, and the target outline of every card is drawn.
C2_OneCardMovesAtATime ==
    pc = "anim_done" =>
        \A k \in 0..(Len(args.specs) - 1), i \in 0..(args.transition_frames - 1) :
            /\ Len(TransitionFrame(k, i).shapes) = 2 * Len(args.specs)
            /\ \A j \in 0..(Len(args.specs) - 1) :
                /\ TransitionFrame(k, i).shapes[j + 1] =
                      _draw_shape(args.specs[j + 1].target, args.specs[j + 1].size,
                                  args.specs[j + 1].shape, outline_color, FALSE)
                /\ TransitionFrame(k, i).shapes[Len(args.specs) + j + 1].filled
                /\ j < k => CardCentre(TransitionFrame(k, i), j) = args.specs[j + 1].target
                /\ j > k => CardCentre(TransitionFrame(k, i), j) = args.specs[j + 1].start
                /\ j = k => CardCentre(TransitionFrame(k, i), j) =
                               CurrentPos(args.specs[j + 1], i, args.transition_frames)

\* a middle step of the middle card of three: the first card has arrived, the
\* last has not left, the middle one is at neither end
C2_Witness ==
    /\ pc = "anim_done"
    /\ Len(args.specs) = 3
    /\ args.transition_frames >= 3
    /\ CardCentre(TransitionFrame(1, 1), 0) = args.specs[1].target
    /\ CardCentre(TransitionFrame(1, 1), 2) = args.specs[3].start
    /\ ~SamePoint(CardCentre(TransitionFrame(1, 1), 1), args.specs[2].start)
    /\ ~SamePoint(CardCentre(TransitionFrame(1, 1), 1), args.specs[2].target)

\* C3: the result has 2 * hold_frames + numCards * transition_frames frames:
\* hold_frames copies of the start image, then for each card in turn its
\* transition_frames frames, then hold_frames copies of the end image.
C3_FrameLayout ==
    pc = "anim_done" =>
        /\ Len(ret) = 2 * args.hold_frames + Len(args.specs) * args.transition_frames
        /\ \A f \in 1..args.hold_frames :
              /\ ret[f] = render_start(args.canvas, args.specs)
              /\ ret[Len(ret) - f + 1] = render_end(args.canvas, args.specs)
        /\ \A k \in 0..(Len(args.specs) - 1), i \in 0..(args.transition_frames - 1) :
              TransitionFrame(k, i) =
                  _render_animation_frame(args.canvas, args.specs, k,
                      CurrentPos(args.specs[k + 1], i, args.transition_frames))

C3_Witness ==
    /\ pc = "anim_done"
    /\ args.hold_frames = 2
    /\ args.transition_frames = 3
    /\ Len(args.specs) = 3
    /\ Len(ret) = 13
    /\ ret[2] = render_start(args.canvas, args.specs)
    /\ ret[12] = render_end(args.canvas, args.specs)

\* C4 as claimed: for transition_frames >= 1, step 0 of a card's transition
\* draws the card exactly at its start and the last step exactly at its target.
C4_AsClaimed ==
    (pc = "anim_done" /\ args.transition_frames >= 1) =>
        \A k \in 0..(Len(args.specs) - 1) :
            /\ SamePoint(CardCentre(TransitionFrame(k, 0), k), args.specs[k + 1].start)
            /\ SamePoint(CardCentre(TransitionFrame(k, args.transition_frames - 1), k),
                         args.specs[k + 1].target)

FAbs(x) == [x EXCEPT !.neg = FALSE]

\* one unit in the last place of x # 0
Ulp(x) == [neg |-> FALSE, m |-> BShl(<<1>>, Precision - 1), e |-> x.e - (Precision - 1)]

WithinOneUlp(p, q) ==
    /\ FLe(FAbs(FSub(p[1], q[1])), Ulp(q[1]))
    /\ FLe(FAbs(FSub(p[2], q[2])), Ulp(q[2]))

\* C4, amended: for transition_frames >= 2, step 0 draws the card exactly at
\* its start; for transition_frames >= 1, the last step has progress exactly
\* 1.0 and draws the card at start + (target - start) as floats, which is
\* within one unit in the last place of its target in each coordinate.
C4_Boundary ==
    pc = "anim_done" =>
        \A k \in 0..(Len(args.specs) - 1) :
            /\ args.transition_frames >= 2 =>
                  SamePoint(CardCentre(TransitionFrame(k, 0), k), args.specs[k + 1].start)
            /\ args.transition_frames >= 1 =>
                  /\ FEq(Progress(args.transition_frames - 1, args.transition_frames),
                         FromInt(1))
                  /\ CardCentre(TransitionFrame(k, args.transition_frames - 1), k) =
                        CurrentPosAt(args.specs[k + 1], FromInt(1))
                  /\ WithinOneUlp(
                        CardCentre(TransitionFrame(k, args.transition_frames - 1), k),
                        args.specs[k + 1].target)

\* a transition of several steps that starts exactly at start and whose last
\* step is off its target by rounding
C4_Witness ==
    /\ pc = "anim_done"
    /\ args.transition_frames >= 2
    /\ \E k \in 0..(Len(args.specs) - 1) :
          /\ SamePoint(CardCentre(TransitionFrame(k, 0), k), args.specs[k + 1].start)
          /\ ~SamePoint(CardCentre(TransitionFrame(k, args.transition_frames - 1), k),
                        args.specs[k + 1].target)
          /\ WithinOneUlp(CardCentre(TransitionFrame(k, args.transition_frames - 1), k),
                          args.specs[k + 1].target)

(***************************************************************************)
(* Runs of _create_specs: the canvas of the configuration, the count that  *)
(* _shape_count_for_difficulty gives, and the random outcomes.             *)
(***************************************************************************)
LayoutCanvases == Canvases \cup {<<1280, 400>>, <<1, 1>>}

InitLayout ==
    /\ pc = "specs_call"
    /\ args \in [canvas : LayoutCanvases, count : MinShapes..MaxShapes,
                 stream : 1..NumStreams, shape_rot : 0..(NumRotations - 1)]
    /\ ret = None
    /\ NoGenerator

CreateSpecs ==
    /\ pc = "specs_call"
    /\ pc' = "specs_done"
    /\ ret' = _create_specs(args.canvas, args.count,
                            Rng(args.stream, args.shape_rot, 0))
    /\ UNCHANGED <<args, generator_vars>>

NextLayout == CreateSpecs

SpecLayout == InitLayout /\ [][NextLayout]_vars

\* the ranges, columns and rows of one side for the call of the state
XRangeOf(side) ==
    IF side = "cards" THEN CardXRange(args.canvas[1]) ELSE SlotXRange(args.canvas[1])

ColumnsOf(side) == _layout_columns(_choose_layout(args.count), side)

RowsOf(side) == (args.count + ColumnsOf(side) - 1) \div ColumnsOf(side)

CellWidth(side) ==
    FDiv(FSub(XRangeOf(side)[2], XRangeOf(side)[1]), FromInt(ColumnsOf(side)))

CellHeight(side) ==
    FDiv(FSub(YRange(args.canvas[2])[2], YRange(args.canvas[2])[1]),
         FromInt(RowsOf(side)))

\* C9: every spec of one _create_specs call has the same size, which is at
\* most 90 and at most 55% of the cell width and of the cell height of the
\* card-side grid and of the slot-side grid.
C9_SizeWithinCells ==
    pc = "specs_done" =>
        \A i \in 1..Len(ret.specs) :
            /\ ret.specs[i].size = ret.specs[1].size
            /\ FLe(ret.specs[i].size, F90)
            /\ \A side \in {"cards", "slots"} :
                /\ FLe(ret.specs[i].size, FMul(CellWidth(side), F0_55))
                /\ FLe(ret.specs[i].size, FMul(CellHeight(side), F0_55))

\* a staggered task whose two grids allow different sizes, the smaller one
\* under 90 and kept
C9_Witness ==
    /\ pc = "specs_done"
    /\ args.count = 3
    /\ FLt(FMul(CellWidth("cards"), F0_55), FMul(CellHeight("slots"), F0_55))
    /\ FLt(FMul(CellHeight("slots"), F0_55), F90)
    /\ FEq(ret.specs[3].size, FMul(CellWidth("cards"), F0_55))

Half(x) == FDiv(x, FromInt(2))

\* C10 as claimed: staggered has 2 columns for cards and 1 for slots; grid
\* and scatter have 2 columns on both sides, a card jitter between 0.01 and
\* 0.03, and a slot jitter that is 0 or half the card jitter.
C10_AsClaimed ==
    pc = "specs_done" =>
        /\ ret.layout_variant = "staggered" =>
              /\ _layout_columns("staggered", "cards") = 2
              /\ _layout_columns("staggered", "slots") = 1
        /\ ret.layout_variant \in {"grid", "scatter"} =>
              /\ _layout_columns(ret.layout_variant, "cards") = 2
              /\ _layout_columns(ret.layout_variant, "slots") = 2
              /\ FLe(Dec(1, 100), _layout_jitter(ret.layout_variant, "cards"))
              /\ FLe(_layout_jitter(ret.layout_variant, "cards"), Dec(3, 100))
              /\ \/ FEq(_layout_jitter(ret.layout_variant, "slots"), F0)
                 \/ FEq(_layout_jitter(ret.layout_variant, "slots"),
                        Half(_layout_jitter(ret.layout_variant, "cards")))

\* C10, amended: staggered has 2 columns for cards and 1 for slots; grid and
\* scatter have 2 columns on both sides and a card jitter between 0.01 and
\* 0.03; the slot jitter is half the card jitter for scatter and equal to
\* the card jitter for grid.
C10_LayoutTables ==
    pc = "specs_done" =>
        /\ ret.layout_variant = "staggered" =>
              /\ _layout_columns("staggered", "cards") = 2
              /\ _layout_columns("staggered", "slots") = 1
        /\ ret.layout_variant \in {"grid", "scatter"} =>
              /\ _layout_columns(ret.layout_variant, "cards") = 2
              /\ _layout_columns(ret.layout_variant, "slots") = 2
              /\ FLe(Dec(1, 100), _layout_jitter(ret.layout_variant, "cards"))
              /\ FLe(_layout_jitter(ret.layout_variant, "cards"), Dec(3, 100))
        /\ ret.layout_variant = "scatter" =>
              FEq(_layout_jitter("scatter", "slots"),
                  Half(_layout_jitter("scatter", "cards")))
        /\ ret.layout_variant = "grid" =>
              FEq(_layout_jitter("grid", "slots"), _layout_jitter("grid", "cards"))

\* a grid task: the slots are jittered as much as the cards, and a slot is
\* off the centre of its cell
C10_Witness ==
    /\ pc = "specs_done"
    /\ ret.layout_variant = "grid"
    /\ FEq(_layout_jitter("grid", "slots"), Dec(1, 100))
    /\ ~FEq(ret.specs[1].target[1],
            CellCentre(XRangeOf("slots")[1], 0, 2,
                       FSub(XRangeOf("slots")[2], XRangeOf("slots")[1])))

(***************************************************************************)
(* Runs of _create_specs at the ends of the jitter.  random() returns a    *)
(* multiple of 2^-53 in [0, 1): 0 makes random.uniform(-j, j) return -j,   *)
(* the largest value below 1 brings it next to j.  The cards of the left   *)
(* column take x_draw0 for x, those of the right column x_draw1, and every *)
(* card y_draw for y.                                                      *)
(***************************************************************************)
LargestRandom == FSub(FromInt(1), FRound(FALSE, <<1>>, -Precision))

ExtremeDraws == {F0, F0_5, LargestRandom}

ExtremeStream(x_draw0, x_draw1, y_draw) ==
    [k \in 1..MaxDraws |->
        IF k % 2 = 0 THEN y_draw
        ELSE IF ((k - 1) \div 2) % 2 = 0 THEN x_draw0 ELSE x_draw1]

InitJitter ==
    /\ pc = "jitter_call"
    /\ args \in [canvas : LayoutCanvases, count : MinShapes..MaxShapes,
                 x_draw0 : ExtremeDraws, x_draw1 : ExtremeDraws,
                 y_draw : ExtremeDraws]
    /\ ret = None
    /\ NoGenerator

CreateSpecsJittered ==
    /\ pc = "jitter_call"
    /\ pc' = "jitter_done"
    /\ ret' = _create_specs(args.canvas, args.count,
                 [Rng(1, 0, 0) EXCEPT
                     !.rnd = ExtremeStream(args.x_draw0, args.x_draw1, args.y_draw)])
    /\ UNCHANGED <<args, generator_vars>>

NextJitter == CreateSpecsJittered

SpecJitter == InitJitter /\ [][NextJitter]_vars

\* the fraction num/den of the canvas width, as the source computes 0.12 * w
WidthFraction(num, den) == FMul(Dec(num, den), FromInt(args.canvas[1]))

\* C11: for every spec of a _create_specs call, at every end of the jitter,
\* start.x lies in [0.12*w, 0.40*w] and target.x in [0.60*w, 0.88*w]; every
\* card is strictly left and every slot strictly right of the midline w/2.
C11_SidesOfMidline ==
    pc = "jitter_done" =>
        \A i \in 1..Len(ret.specs) :
            /\ FLe(WidthFraction(12, 100), ret.specs[i].start[1])
            /\ FLe(ret.specs[i].start[1], WidthFraction(40, 100))
            /\ FLe(WidthFraction(60, 100), ret.specs[i].target[1])
            /\ FLe(ret.specs[i].target[1], WidthFraction(88, 100))
            /\ FLt(ret.specs[i].start[1], Half(FromInt(args.canvas[1])))
            /\ FLt(Half(FromInt(args.canvas[1])), ret.specs[i].target[1])

\* a scatter task at the ends of the jitter: the first card is pushed left of
\* the centre of its cell by the whole card jitter, the second slot right of
\* the centre of its cell
C11_Witness ==
    /\ pc = "jitter_done"
    /\ ret.layout_variant = "scatter"
    /\ args.x_draw0 = F0
    /\ args.x_draw1 = LargestRandom
    /\ FEq(ret.specs[1].start[1],
           FAdd(CellCentre(XRangeOf("cards")[1], 0, 2,
                           FSub(XRangeOf("cards")[2], XRangeOf("cards")[1])),
                FMul(FNeg(_layout_jitter("scatter", "cards")),
                     FSub(XRangeOf("cards")[2], XRangeOf("cards")[1]))))
    /\ FLt(CellCentre(XRangeOf("slots")[1], 1, 2,
                      FSub(XRangeOf("slots")[2], XRangeOf("slots")[1])),
           ret.specs[2].target[1])

(***************************************************************************)
(* Runs of _sample_shapes and _sample_colors.  random.sample returns the   *)
(* start of any ordering of the palette; random.choices, called only for a *)
(* count beyond the palette, any positions.                                *)
(***************************************************************************)
MaxSampleCount == 7

Orderings(n) ==
    {p \in [1..n -> 1..n] : \A i, j \in 1..n : p[i] = p[j] => i = j}

PaletteOrderings == Orderings(Len(SHAPES))

Picks(count, n) == [1..Max2(0, count - n) -> 1..n]

InitSample ==
    /\ pc = "sample_call"
    /\ \E count \in 0..MaxSampleCount :
          args \in [count : {count}, perm : PaletteOrderings,
                    picks : Picks(count, Len(SHAPES))]
    /\ ret = None
    /\ NoGenerator

SampleShapes ==
    /\ pc = "sample_call"
    /\ pc' = "shapes_done"
    /\ ret' = _sample_shapes(args.count, args.perm, args.picks)
    /\ UNCHANGED <<args, generator_vars>>

SampleColors ==
    /\ pc = "sample_call"
    /\ pc' = "colors_done"
    /\ ret' = _sample_colors(args.count, args.perm, args.picks)
    /\ UNCHANGED <<args, generator_vars>>

NextSample == SampleShapes \/ SampleColors

SpecSample == InitSample /\ [][NextSample]_vars

PairwiseDistinct(seq) == \A i, j \in 1..Len(seq) : seq[i] = seq[j] => i = j

Entries(seq, n) == {seq[i] : i \in 1..n}

\* C7: for a count of at most 6 the sampled shapes are pairwise distinct and
\* the sampled colours are pairwise distinct; for a count above 6 the result
\* has count entries and its first 6 are the whole palette, each once.
C7_Sampling ==
    /\ pc = "shapes_done" =>
          /\ args.count <= 6 => Len(ret) = args.count /\ PairwiseDistinct(ret)
          /\ args.count > 6 =>
                /\ Len(ret) = args.count
                /\ PairwiseDistinct(SubSeq(ret, 1, 6))
                /\ Entries(ret, 6) = Entries(SHAPES, Len(SHAPES))
    /\ pc = "colors_done" =>
          /\ args.count <= 6 => Len(ret) = args.count /\ PairwiseDistinct(ret)
          /\ args.count > 6 =>
                /\ Len(ret) = args.count
                /\ PairwiseDistinct(SubSeq(ret, 1, 6))
                /\ Entries(ret, 6) = Entries(COLORS, Len(COLORS))

\* seven colours: the palette in an order that is not the table's, then a
\* repeat of one of them
C7_Witness ==
    /\ pc = "colors_done"
    /\ args.count = 7
    /\ SubSeq(ret, 1, 6) # COLORS
    /\ Entries(ret, 6) = Entries(COLORS, 6)
    /\ ret[7] \in Entries(ret, 6)

(***************************************************************************)
(* Runs of _build_signature on the specs of a generated task and on the    *)
(* same specs in another order.                                            *)
(***************************************************************************)
MaxSigCards == 4

SigTasks ==
    [c \in Canvases, n \in MinShapes..MaxSigCards, s \in 1..NumStreams,
     r \in 0..(NumRotations - 1) |-> _create_specs(c, n, Rng(s, r, r))]

Permuted(specs, perm) == [i \in 1..Len(specs) |-> specs[perm[i]]]

InitSig ==
    /\ pc = "sig_call"
    /\ \E k \in DOMAIN SigTasks :
          args \in [specs : {SigTasks[k].specs},
                    layout_variant : {SigTasks[k].layout_variant},
                    perm : Orderings(k[2])]
    /\ ret = None
    /\ NoGenerator

BuildSignatures ==
    /\ pc = "sig_call"
    /\ pc' = "sig_done"
    /\ ret' = [original |-> _build_signature(args.specs, args.layout_variant),
               permuted |-> _build_signature(Permuted(args.specs, args.perm),
                                             args.layout_variant)]
    /\ UNCHANGED <<args, generator_vars>>

NextSig == BuildSignatures

SpecSig == InitSig /\ [][NextSig]_vars

\* C8: the signature of a list of specs and the signature of the same specs
\* in any other order, with the same layout variant, are the same string.
C8_OrderIndependent ==
    pc = "sig_done" => ret.original = ret.permuted

\* three or more specs whose list order is not the sorted order, reordered
C8_Witness ==
    /\ pc = "sig_done"
    /\ Len(args.specs) >= 3
    /\ Permuted(args.specs, args.perm) # args.specs
    /\ SortItems([i \in 1..Len(args.specs) |-> Quantize(args.specs[i])],
                 Len(args.specs))
          # [i \in 1..Len(args.specs) |-> Quantize(args.specs[i])]
    /\ ret.original = ret.permuted

====
